---- MODULE Spec2Model ----
(***************************************************************************)
(* NFC_Reader_Writer.ino: the LCD/keypad and serial front-ends, the shared *)
(* menu state machine, the hex key editor and the MIFARE card operations.  *)
(*                                                                         *)
(* Characters are their ASCII codes and an Arduino String is a sequence of *)
(* codes.  Every C function that changes state is an operator from a state*)
(* record to a state record, so a handler is the composition of the calls  *)
(* it makes, and one step of the model is one handler of loop() run to its *)
(* end.  The card reader is the environment: each handler is given the     *)
(* polls wait-for-card sees and the card that answers.                     *)
(***************************************************************************)
EXTENDS Integers, Sequences, FiniteSets, TLC

VARIABLES
    currentState,   \* MenuState currentState
    menuIndex,      \* int menuIndex
    inputText,      \* String inputText
    cursorPos,      \* int cursorPos
    charIndex,      \* int charIndex
    keyInput,       \* String keyInput
    keyPos,         \* int keyPos
    keyCharIndex,   \* int keyCharIndex
    serialInput,    \* String serialInput
    keys,           \* MFRC522::MIFARE_Key keys[3], slots 0..2 at indices 1..3
    lcd,            \* what the last handler put on the display, each lcd.clear() marked
    serialOut,      \* the lines the last handler printed on Serial
    cardLog,        \* the card-service calls the last handler made, in order
    lastEvent,      \* the event the last handler was given
    effort          \* edit inputs used so far (bounds the exploration)

vars == <<currentState, menuIndex, inputText, cursorPos, charIndex, keyInput,
          keyPos, keyCharIndex, serialInput, keys, lcd, serialOut, cardLog,
          lastEvent, effort>>

(*************************** program constants *****************************)

\* const int NUM_KEYS
NUM_KEYS == 3

\* const int maxMenuItems
maxMenuItems == 5

\* const char charSet[]: space, A-Z, a-z, 0-9, punctuation
charSet ==
    <<32>>
    \o <<65, 66, 67, 68, 69, 70, 71, 72, 73, 74, 75, 76, 77,
         78, 79, 80, 81, 82, 83, 84, 85, 86, 87, 88, 89, 90>>
    \o <<97, 98, 99, 100, 101, 102, 103, 104, 105, 106, 107, 108, 109,
         110, 111, 112, 113, 114, 115, 116, 117, 118, 119, 120, 121, 122>>
    \o <<48, 49, 50, 51, 52, 53, 54, 55, 56, 57>>
    \o <<33, 64, 35, 36, 37, 94, 38, 42, 40, 41, 95, 43, 45, 61,
         91, 93, 123, 125, 124, 59, 58, 44, 46, 60, 62, 63>>

\* mutant: the terminating NUL and one symbol more taken off (sizeof(charSet) - 2)
charSetSizeShort == Len(charSet) - 1

\* const int charSetSize = sizeof(charSet) - 1
charSetSize == Len(charSet)

\* keys[0] and keys[1] as setup() fills them
FactoryKey == <<255, 255, 255, 255, 255, 255>>
SecondKey == <<211, 247, 211, 247, 211, 247>>

(****************************** String helpers *****************************)

Min(a, b) == IF a < b THEN a ELSE b

Max(a, b) == IF a > b THEN a ELSE b

\* String::substring(from, to): characters from..to-1, 0-based, to clipped to the length
Substring(str, from, to) ==
    LET t == Min(to, Len(str))
    IN  IF from >= t THEN <<>> ELSE SubSeq(str, from + 1, t)

\* str[i], 0-based
CharAt(str, i) == str[i + 1]

\* str[i] = c, 0-based
SetCharAt(str, i, c) == [str EXCEPT ![i + 1] = c]

\* n copies of byte b
Fill(n, b) == [i \in 1..n |-> b]

(**************************** output and card log **************************)

\* one printed item: a fixed text and the variable part printed with it
Msg(text, arg) == [text |-> text, arg |-> arg]

\* Serial.println(...) in state s
SerialPrint(s, text, arg) == [s EXCEPT !.serialOut = Append(@, Msg(text, arg))]

\* lcd.clear()
LcdClear(s) == [s EXCEPT !.lcd = Append(@, Msg("<clear>", <<>>))]

\* lcd.print(...)
LcdPrint(s, text, arg) == [s EXCEPT !.lcd = Append(@, Msg(text, arg))]

\* one call of the card-access service, as the reader saw it
CardCall(op, block, slot, data, ok) ==
    [op |-> op, block |-> block, slot |-> slot, data |-> data, ok |-> ok]

Logged(s, call) == [s EXCEPT !.cardLog = Append(@, call)]

\* mutant: the card left selected (PICC_HaltA and PCD_StopCrypto1 lost)
HaltCardSkipped(s) == s

\* mfrc522.PICC_HaltA(); mfrc522.PCD_StopCrypto1();
HaltCard(s) ==
    Logged(Logged(s, CardCall("halt", 0, 0, <<>>, TRUE)),
           CardCall("stopCrypto", 0, 0, <<>>, TRUE))

(******************************* the card **********************************)
(* A card is [keyA, badWrite, readOk, data]: key A of each sector, the     *)
(* blocks whose write the card rejects, whether block 4 can be read, and   *)
(* the 16 bytes of block 4.                                                *)

\* PCD_Authenticate(PICC_CMD_MF_AUTH_KEY_A, trailerBlock, key, uid): the card's answer
PCD_Authenticate(card, trailerBlock, key) == card.keyA[trailerBlock \div 4] = key

\* MIFARE_Write(block, data, 16): the card's answer
MIFARE_Write(card, block) == block \notin card.badWrite

(************************ authenticateWithKeys *****************************)

\* the loop of authenticateWithKeys from slot i on: [st, ok]
RECURSIVE AuthFrom(_, _, _, _)
AuthFrom(s, card, trailerBlock, i) ==
    IF i >= NUM_KEYS
    THEN [st |-> s, ok |-> FALSE]
    ELSE LET ok == PCD_Authenticate(card, trailerBlock, s.keys[i + 1])
             t  == Logged(s, CardCall("auth", trailerBlock, i, <<>>, ok))
         IN  IF ok
             THEN [st |-> SerialPrint(t, "Authentication successful with key ", <<i + 1>>),
                   ok |-> TRUE]
             ELSE AuthFrom(t, card, trailerBlock, i + 1)

\* mutant: the loop goes on after a key was accepted (the return in the loop lost)
RECURSIVE AuthAllFrom(_, _, _, _)
AuthAllFrom(s, card, trailerBlock, i) ==
    IF i >= NUM_KEYS
    THEN [st |-> s, ok |-> FALSE]
    ELSE LET ok == PCD_Authenticate(card, trailerBlock, s.keys[i + 1])
             t  == Logged(s, CardCall("auth", trailerBlock, i, <<>>, ok))
             r  == AuthAllFrom(t, card, trailerBlock, i + 1)
         IN  [st |-> r.st, ok |-> ok \/ r.ok]

authenticateAllKeys(s, card, trailerBlock) == AuthAllFrom(s, card, trailerBlock, 0)

authenticateWithKeys(s, card, trailerBlock) == AuthFrom(s, card, trailerBlock, 0)

(******************************* waitForCard *******************************)
(* polls is what the reader sees at each 50 ms poll until the 10 s timeout: *)
(* "none", "incompat" (a card of another family) or "compat".              *)

RECURSIVE waitForCard(_, _)
waitForCard(s, polls) ==
    IF polls = <<>>
    THEN [st |-> s, ok |-> FALSE]
    ELSE LET p == Head(polls)
             t == Logged(s, CardCall("detect", 0, 0, <<>>, p # "none"))
         IN  IF p = "compat"
             THEN [st |-> SerialPrint(t, "Compatible NFC card detected!", <<>>), ok |-> TRUE]
             ELSE IF p = "incompat"
                  THEN waitForCard(HaltCard(t), Tail(polls))
                  ELSE waitForCard(t, Tail(polls))

\* the no-card exit shared by the four card operations
NoCard(s) ==
    SerialPrint(LcdPrint(LcdClear(s), "Failed!", <<>>),
                "Operation failed - no card detected or timeout!", <<>>)

\* the prompt the four card operations start with
PlaceCard(s) ==
    SerialPrint(LcdPrint(LcdClear(s), "Place card...", <<>>),
                "Place NFC card near reader...", <<>>)

\* the authentication-failure exit of writeCard and writeCustomText
AuthFailed(s) ==
    HaltCard(SerialPrint(LcdPrint(LcdClear(s), "Auth Failed!", <<>>),
                         "Authentication failed with all keys!", <<>>))

(***************************** formatCard **********************************)

\* mutant: the block loop also writes the sector trailer (blockOffset < 4)
RECURSIVE FormatBlocksAndTrailer(_, _, _, _)
FormatBlocksAndTrailer(s, card, firstBlock, blockOffset) ==
    IF blockOffset >= 4
    THEN [st |-> s, ok |-> TRUE]
    ELSE LET blockNumber == firstBlock + blockOffset
             ok == MIFARE_Write(card, blockNumber)
             t  == Logged(s, CardCall("write", blockNumber, 0, Fill(16, 0), ok))
         IN  IF ok
             THEN FormatBlocksAndTrailer(t, card, firstBlock, blockOffset + 1)
             ELSE [st |-> t, ok |-> FALSE]

\* the inner loop of formatCard: write emptyBlock to firstBlock+blockOffset.. : [st, ok]
RECURSIVE FormatBlocks(_, _, _, _)
FormatBlocks(s, card, firstBlock, blockOffset) ==
    IF blockOffset >= 3
    THEN [st |-> s, ok |-> TRUE]
    ELSE LET blockNumber == firstBlock + blockOffset
             ok == MIFARE_Write(card, blockNumber)
             t  == Logged(s, CardCall("write", blockNumber, 0, Fill(16, 0), ok))
         IN  IF ok
             THEN FormatBlocks(t, card, firstBlock, blockOffset + 1)
             ELSE [st |-> t, ok |-> FALSE]

\* the block loop of one sector, as formatCard starts it
FormatSectorBlocks(s, card, firstBlock) == FormatBlocks(s, card, firstBlock, 0)

\* mutant: a failed sector is skipped and the next one formatted (the break lost)
RECURSIVE FormatSectorsOn(_, _, _, _)
FormatSectorsOn(s, card, sector, success) ==
    IF sector >= 16
    THEN [st |-> s, ok |-> success]
    ELSE LET firstBlock   == sector * 4
             trailerBlock == firstBlock + 3
             a == authenticateWithKeys(s, card, trailerBlock)
         IN  IF a.ok
             THEN LET w == FormatSectorBlocks(a.st, card, firstBlock)
                  IN  FormatSectorsOn(w.st, card, sector + 1, success /\ w.ok)
             ELSE FormatSectorsOn(a.st, card, sector + 1, FALSE)

\* the sector loop of formatCard, for (sector = 1; sector < 16 && success; ...): [st, ok]
RECURSIVE FormatSectors(_, _, _)
FormatSectors(s, card, sector) ==
    IF sector >= 16
    THEN [st |-> s, ok |-> TRUE]
    ELSE LET firstBlock   == sector * 4
             trailerBlock == firstBlock + 3
             a == authenticateWithKeys(s, card, trailerBlock)
         IN  IF a.ok
             THEN LET w == FormatSectorBlocks(a.st, card, firstBlock)
                  IN  IF w.ok
                      THEN FormatSectors(w.st, card, sector + 1)
                      ELSE [st |-> w.st, ok |-> FALSE]
             ELSE [st |-> a.st, ok |-> FALSE]

\* mutant: a failed sector does not stop the loop
FormatEverySector(s, card) == FormatSectorsOn(s, card, 1, TRUE)

\* mutant: the loop starts at sector 0
FormatFromSector0(s, card) == FormatSectors(s, card, 0)

\* for (byte sector = 1; ...)
FormatFromSector1(s, card) == FormatSectors(s, card, 1)

formatCard(s, env) ==
    LET w == waitForCard(PlaceCard(s), env.polls)
    IN  IF ~w.ok
        THEN NoCard(w.st)
        ELSE LET t == SerialPrint(LcdPrint(LcdClear(w.st), "Formatting...", <<>>),
                                  "Formatting card...", <<>>)
                 f == FormatFromSector1(t, env.card)
                 u == LcdClear(f.st)
             IN  HaltCard(IF f.ok
                          THEN SerialPrint(LcdPrint(u, "Format Success!", <<>>),
                                           "Card formatted successfully!", <<>>)
                          ELSE SerialPrint(LcdPrint(u, "Format Failed!", <<>>),
                                           "Card formatting failed!", <<>>))

(********************** writeCard, writeCustomText *************************)

\* the part writeCard and writeCustomText share after the data block is prepared:
\* authenticate trailer block 7, write block 4, report, halt
WriteBlock4(s, card, dataBlock, okText, okArg, serialText, serialArg) ==
    LET block == 4
        trailerBlock == 7
        a == authenticateWithKeys(s, card, trailerBlock)
    IN  IF ~a.ok
        THEN AuthFailed(a.st)
        ELSE LET ok == MIFARE_Write(card, block)
                 t  == LcdClear(Logged(a.st, CardCall("write", block, 0, dataBlock, ok)))
             IN  HaltCard(IF ~ok
                          THEN SerialPrint(LcdPrint(t, "Write Failed!", <<>>),
                                           "Write operation failed!", <<>>)
                          ELSE SerialPrint(LcdPrint(LcdPrint(t, "Write Success!", <<>>),
                                                    okText, okArg),
                                           serialText, serialArg))

\* mutant: dataBlock of writeCard ends in zero bytes
writeCardZeroPadded(s, env) ==
    LET w == waitForCard(PlaceCard(s), env.polls)
    IN  IF ~w.ok
        THEN NoCard(w.st)
        ELSE WriteBlock4(w.st, env.card,
                         <<72, 101, 108, 108, 111, 32, 78, 70, 67, 33, 0, 0, 0, 0, 0, 0>>,
                         "Hello NFC!", <<>>,
                         "Successfully wrote 'Hello NFC!' to card", <<>>)

writeCard(s, env) ==
    LET w == waitForCard(PlaceCard(s), env.polls)
    IN  IF ~w.ok
        THEN NoCard(w.st)
        ELSE WriteBlock4(w.st, env.card,
                         <<72, 101, 108, 108, 111, 32, 78, 70, 67, 33, 32, 32, 32, 32, 32, 32>>,
                         "Hello NFC!", <<>>,
                         "Successfully wrote 'Hello NFC!' to card", <<>>)

\* mutant: the memset of dataBlock lost, the bytes after the text are zero
CustomBlockNoFill(textToWrite) ==
    [i \in 1..16 |-> IF i <= Min(Len(textToWrite), 16) THEN textToWrite[i] ELSE 0]

\* memset(dataBlock, ' ', 16), then the first min(length, 16) characters of the text
CustomBlock(textToWrite) ==
    [i \in 1..16 |-> IF i <= Min(Len(textToWrite), 16) THEN textToWrite[i] ELSE 32]

writeCustomText(s, env, textToWrite) ==
    LET w == waitForCard(PlaceCard(s), env.polls)
    IN  IF ~w.ok
        THEN NoCard(w.st)
        ELSE WriteBlock4(w.st, env.card, CustomBlock(textToWrite),
                         "", Substring(textToWrite, 0, 16),
                         "Successfully wrote ' ' to card", textToWrite)

(******************************* readCard **********************************)

\* the digit Serial.print(n, HEX) prints for a nibble
HexChar(n) == IF n < 10 THEN 48 + n ELSE 65 + (n - 10)

\* a byte as two upper-case hex characters (a leading "0" below 0x10)
HexByte(b) == <<HexChar(b \div 16), HexChar(b % 16)>>

RECURSIVE HexBytes(_)
HexBytes(bytes) ==
    IF bytes = <<>> THEN <<>> ELSE HexByte(Head(bytes)) \o HexBytes(Tail(bytes))

\* printable ASCII as it is, anything else as "."
Printable(bytes) == [i \in 1..Len(bytes) |-> IF bytes[i] >= 32 /\ bytes[i] <= 126 THEN bytes[i] ELSE 46]

readCard(s, env) ==
    LET w == waitForCard(PlaceCard(s), env.polls)
    IN  IF ~w.ok
        THEN NoCard(w.st)
        ELSE LET card == env.card
                 t == SerialPrint(LcdPrint(LcdClear(w.st), "UID:",
                                           HexBytes(Substring(card.uid, 0, 4))),
                                  "Card UID: ", HexBytes(card.uid))
                 a == authenticateWithKeys(t, card, 7)
             IN  HaltCard(
                   IF a.ok
                   THEN LET u == Logged(a.st, CardCall("read", 4, 0, <<>>, card.readOk))
                        IN  IF card.readOk
                            THEN SerialPrint(
                                   SerialPrint(LcdPrint(u, "Data:", Printable(Substring(card.data, 0, 11))),
                                               "Data (Block 4): ", Printable(card.data)),
                                   "Hex: ", HexBytes(card.data))
                            ELSE SerialPrint(LcdPrint(u, "Read Failed!", <<>>),
                                             "Read operation failed!", <<>>)
                   ELSE SerialPrint(LcdPrint(a.st, "Auth Failed!", <<>>),
                                    "Authentication failed with all keys!", <<>>))

(************************ changeKey, changeKeyFromSerial *******************)

\* the value of a hex digit character, -1 for any other character
HexVal(c) ==
    IF c >= 48 /\ c <= 57 THEN c - 48
    ELSE IF c >= 65 /\ c <= 70 THEN c - 55
    ELSE IF c >= 97 /\ c <= 102 THEN c - 87
    ELSE -1

\* strtoul(str, NULL, 16) on the leading hex digits of str, acc so far
RECURSIVE Strtoul16(_, _)
Strtoul16(str, acc) ==
    IF str = <<>> \/ HexVal(Head(str)) < 0
    THEN acc
    ELSE Strtoul16(Tail(str), acc * 16 + HexVal(Head(str)))

\* mutant: the two characters of a byte read low nibble first
ParseKeyLowNibbleFirst(hex) ==
    [i \in 1..6 |-> (Strtoul16(Substring(hex, (i - 1) * 2 + 1, (i - 1) * 2 + 2), 0) * 16
                       + Strtoul16(Substring(hex, (i - 1) * 2, (i - 1) * 2 + 1), 0)) % 256]

\* keyByte[i] = strtoul(hex.substring(i*2, i*2+2).c_str(), NULL, 16), stored in a byte
ParseKey(hex) == [i \in 1..6 |-> Strtoul16(Substring(hex, (i - 1) * 2, (i - 1) * 2 + 2), 0) % 256]

\* mutant: the length check of changeKey lost
changeKeyAnyLength(s) ==
    LET t == [s EXCEPT !.keys[3] = ParseKey(s.keyInput)]
    IN  SerialPrint(LcdPrint(LcdPrint(LcdClear(t), "Key Updated!", <<>>), "", s.keyInput),
                    "User authentication key updated to: ", s.keyInput)

changeKey(s) ==
    IF Len(s.keyInput) # 12
    THEN SerialPrint(LcdPrint(LcdClear(s), "Invalid Key!", <<>>),
                     "Invalid key length! Must be 12 hex characters.", <<>>)
    ELSE LET t == [s EXCEPT !.keys[3] = ParseKey(s.keyInput)]
         IN  SerialPrint(LcdPrint(LcdPrint(LcdClear(t), "Key Updated!", <<>>), "", s.keyInput),
                         "User authentication key updated to: ", s.keyInput)

\* mutant: the parsed bytes stored in keys[0]
changeFirstKeyFromSerial(s, newKey) ==
    SerialPrint([s EXCEPT !.keys[1] = ParseKey(newKey)],
                "User authentication key updated to: ", newKey)

changeKeyFromSerial(s, newKey) ==
    SerialPrint([s EXCEPT !.keys[3] = ParseKey(newKey)],
                "User authentication key updated to: ", newKey)

(******************************* displays **********************************)

\* String menuItems[]
menuItems ==
    <<"Write Default", "Write Custom", "Read Card", "Format Card", "Change Auth Key">>

displayMainMenu(s) ==
    LcdPrint(LcdPrint(LcdPrint(LcdClear(s), "NFC Menu:", <<>>), ">", <<>>),
             menuItems[s.menuIndex + 1], <<>>)

displaySerialMenu(s) ==
    SerialPrint(SerialPrint(s, "=== NFC Tag Writer Menu ===", <<>>),
                "Enter your choice (1-5): ", <<>>)

displayTextInput(s) ==
    LET shown == IF Len(s.inputText) = 0 THEN <<32>> ELSE s.inputText
        startPos == Max(0, s.cursorPos - 5)
        displayStr == IF Len(shown) > 11 THEN Substring(shown, startPos, startPos + 11) ELSE shown
    IN  LcdPrint(LcdPrint(LcdPrint(LcdPrint(LcdClear(s), "Text:", displayStr),
                                   "Char:", <<charSet[s.charIndex + 1]>>),
                          " Pos:", <<s.cursorPos>>),
                 "/16", <<>>)

displayKeyInput(s) ==
    LcdPrint(LcdPrint(LcdPrint(LcdClear(s), "Key: ", s.keyInput),
                      "Hex: ", <<HexChar(s.keyCharIndex)>>),
             " Pos:", <<s.keyPos>>)

(***************************** the text editor *****************************)

\* while (inputText.length() <= cursorPos) inputText += ' '
RECURSIVE ExtendTo(_, _)
ExtendTo(str, pos) == IF Len(str) <= pos THEN ExtendTo(Append(str, 32), pos) ELSE str

\* while (length > 0 && last == ' ' && length > cursorPos + 1) drop the last character
RECURSIVE TrimBeyond(_, _)
TrimBeyond(str, pos) ==
    IF Len(str) > 0 /\ str[Len(str)] = 32 /\ Len(str) > pos + 1
    THEN TrimBeyond(Substring(str, 0, Len(str) - 1), pos)
    ELSE str

updateCurrentCharacter(s) ==
    LET newChar == charSet[s.charIndex + 1]
        ext == ExtendTo(s.inputText, s.cursorPos)
    IN  [s EXCEPT !.inputText = TrimBeyond(SetCharAt(ext, s.cursorPos, newChar), s.cursorPos)]

\* for (i = 0; i < charSetSize; i++) if (charSet[i] == c) { charIndex = i; break; }
\* the first index of c in charSet, old when c is not in it
FindChar(c, old) ==
    IF \E i \in 1..charSetSize : charSet[i] = c
    THEN (CHOOSE i \in 1..charSetSize :
              charSet[i] = c /\ \A j \in 1..(i - 1) : charSet[j] # c) - 1
    ELSE old

\* mutant: the candidate character left as it was after a cursor move
RederiveNothing(s) == s

\* the candidate character re-derived after a cursor move
Rederive(s) ==
    IF s.cursorPos < Len(s.inputText)
    THEN [s EXCEPT !.charIndex = FindChar(CharAt(s.inputText, s.cursorPos), s.charIndex)]
    ELSE [s EXCEPT !.charIndex = 0]

\* trim the trailing spaces of inputText for writing
RECURSIVE TrimTrailing(_)
TrimTrailing(str) ==
    IF Len(str) > 0 /\ str[Len(str)] = 32
    THEN TrimTrailing(Substring(str, 0, Len(str) - 1))
    ELSE str

executeTextInput(s, env) ==
    LET t == writeCustomText([s EXCEPT !.currentState = "PROCESSING"], env,
                             TrimTrailing(s.inputText))
    IN  displayMainMenu([t EXCEPT !.currentState = "MAIN_MENU"])

handleTextInputButton(s, env, button) ==
    CASE button = "UP" ->
           displayTextInput(updateCurrentCharacter(
               [s EXCEPT !.charIndex = (s.charIndex + 1) % charSetSize]))
      [] button = "DOWN" ->
           displayTextInput(updateCurrentCharacter(
               [s EXCEPT !.charIndex = (s.charIndex - 1 + charSetSize) % charSetSize]))
      [] button = "LEFT" ->
           IF s.cursorPos > 0
           THEN displayTextInput(Rederive([s EXCEPT !.cursorPos = s.cursorPos - 1]))
           ELSE s
      [] button = "RIGHT" ->
           IF s.cursorPos < 16
           THEN displayTextInput(Rederive([s EXCEPT !.cursorPos = s.cursorPos + 1]))
           ELSE s
      [] button = "SELECT" -> executeTextInput(s, env)
      [] OTHER -> s

startTextInput(s) ==
    displayTextInput([s EXCEPT !.currentState = "TEXT_INPUT", !.inputText = <<>>,
                               !.cursorPos = 0, !.charIndex = 0])

(****************************** the key editor *****************************)

executeKeyInput(s) ==
    LET t == changeKey([s EXCEPT !.currentState = "PROCESSING"])
    IN  displayMainMenu([t EXCEPT !.currentState = "MAIN_MENU"])

\* BTN_SELECT of handleKeyInputButton: the hex character put at keyPos
CommitHex(s) ==
    LET hexChar == IF s.keyCharIndex < 10 THEN 48 + s.keyCharIndex
                   ELSE 65 + (s.keyCharIndex - 10)
    IN  IF s.keyPos >= Len(s.keyInput)
        THEN [s EXCEPT !.keyInput = Append(@, hexChar)]
        ELSE [s EXCEPT !.keyInput = SetCharAt(@, s.keyPos, hexChar)]

handleKeyInputButton(s, button) ==
    CASE button = "UP" ->
           displayKeyInput([s EXCEPT !.keyCharIndex = (s.keyCharIndex + 1) % 16])
      [] button = "DOWN" ->
           displayKeyInput([s EXCEPT !.keyCharIndex = (s.keyCharIndex - 1 + 16) % 16])
      [] button = "LEFT" ->
           IF s.keyPos > 0
           THEN displayKeyInput([s EXCEPT !.keyPos = s.keyPos - 1])
           ELSE s
      [] button = "RIGHT" ->
           IF s.keyPos < 11
           THEN displayKeyInput([s EXCEPT !.keyPos = s.keyPos + 1])
           ELSE s
      [] button = "SELECT" ->
           LET t == CommitHex(s)
           IN  IF t.keyPos < 11
               THEN displayKeyInput([t EXCEPT !.keyPos = t.keyPos + 1])
               ELSE executeKeyInput(t)
      [] OTHER -> s

\* mutant: the key editor entered under the legacy enum value CHANGE_KEY
startKeyInputLegacy(s) ==
    displayKeyInput([s EXCEPT !.currentState = "CHANGE_KEY", !.keyInput = <<>>,
                              !.keyPos = 0, !.keyCharIndex = 0])

startKeyInput(s) ==
    displayKeyInput([s EXCEPT !.currentState = "KEY_INPUT", !.keyInput = <<>>,
                              !.keyPos = 0, !.keyCharIndex = 0])

(******************************* the LCD menu ******************************)

\* mutant: the return to MAIN_MENU after the operation lost
executeMenuOptionNoReturn(s, env) ==
    LET t == LcdPrint(LcdClear([s EXCEPT !.currentState = "PROCESSING"]),
                      "Processing...", <<>>)
    IN  CASE s.menuIndex = 1 -> startTextInput(t)
          [] s.menuIndex = 4 -> startKeyInput(t)
          [] s.menuIndex = 0 -> writeCard(t, env)
          [] s.menuIndex = 2 -> readCard(t, env)
          [] s.menuIndex = 3 -> formatCard(t, env)
          [] OTHER -> t

executeMenuOption(s, env) ==
    LET t == LcdPrint(LcdClear([s EXCEPT !.currentState = "PROCESSING"]),
                      "Processing...", <<>>)
    IN  CASE s.menuIndex = 1 -> startTextInput(t)
          [] s.menuIndex = 4 -> startKeyInput(t)
          [] OTHER ->
               LET u == CASE s.menuIndex = 0 -> writeCard(t, env)
                          [] s.menuIndex = 2 -> readCard(t, env)
                          [] s.menuIndex = 3 -> formatCard(t, env)
                          [] OTHER -> t
               IN  displayMainMenu([u EXCEPT !.currentState = "MAIN_MENU"])

handleMainMenuButton(s, env, button) ==
    CASE button = "UP" ->
           displayMainMenu([s EXCEPT !.menuIndex = (s.menuIndex - 1 + maxMenuItems) % maxMenuItems])
      [] button = "DOWN" ->
           displayMainMenu([s EXCEPT !.menuIndex = (s.menuIndex + 1) % maxMenuItems])
      [] button = "SELECT" -> executeMenuOption(s, env)
      [] OTHER -> s

handleButton(s, env, button) ==
    CASE s.currentState = "MAIN_MENU" -> handleMainMenuButton(s, env, button)
      [] s.currentState = "TEXT_INPUT" -> handleTextInputButton(s, env, button)
      [] s.currentState = "KEY_INPUT" -> handleKeyInputButton(s, button)
      [] s.currentState = "PROCESSING" -> s
      [] OTHER ->
           IF button = "SELECT"
           THEN displaySerialMenu(displayMainMenu([s EXCEPT !.currentState = "MAIN_MENU"]))
           ELSE s

(***************************** the serial front-end *************************)

\* the digits atol reads from str, acc so far; atol's long arithmetic wraps without
\* a check and the result is stored in 16 bits, so the low 16 bits are carried
RECURSIVE Digits(_, _)
Digits(str, acc) ==
    IF str = <<>> \/ Head(str) < 48 \/ Head(str) > 57
    THEN acc
    ELSE Digits(Tail(str), (acc * 10 + (Head(str) - 48)) % 65536)

\* leading spaces skipped, as atol does
RECURSIVE SkipSpaces(_)
SkipSpaces(str) ==
    IF str # <<>> /\ Head(str) = 32 THEN SkipSpaces(Tail(str)) ELSE str

\* int choice = serialInput.toInt(): atol of the line (spaces, a sign, digits; no
\* overflow check), stored in a 16-bit int
toInt(str) ==
    LET u == SkipSpaces(str)
        neg == u # <<>> /\ Head(u) = 45
        v == IF u # <<>> /\ (Head(u) = 45 \/ Head(u) = 43) THEN Tail(u) ELSE u
        n == IF neg THEN 0 - Digits(v, 0) ELSE Digits(v, 0)
    IN  ((n + 32768) % 65536) - 32768

\* mutant: the cases numbered as the menu prints them (1..5) while choice - 1 is passed
executeSerialMenuOptionOneBased(s, env, option) ==
    CASE option = 1 ->
           displaySerialMenu(writeCard(SerialPrint(s, "Writing default text to card...", <<>>), env))
      [] option = 2 ->
           [SerialPrint(s, "Enter custom text (max 16 characters):", <<>>)
              EXCEPT !.currentState = "SERIAL_TEXT_INPUT"]
      [] option = 3 ->
           displaySerialMenu(readCard(SerialPrint(s, "Reading card...", <<>>), env))
      [] option = 4 ->
           displaySerialMenu(formatCard(SerialPrint(s, "Formatting card...", <<>>), env))
      [] OTHER -> displaySerialMenu(s)

executeSerialMenuOption(s, env, option) ==
    CASE option = 0 ->
           displaySerialMenu(writeCard(SerialPrint(s, "Writing default text to card...", <<>>), env))
      [] option = 1 ->
           [SerialPrint(s, "Enter custom text (max 16 characters):", <<>>)
              EXCEPT !.currentState = "SERIAL_TEXT_INPUT"]
      [] option = 2 ->
           displaySerialMenu(readCard(SerialPrint(s, "Reading card...", <<>>), env))
      [] option = 3 ->
           displaySerialMenu(formatCard(SerialPrint(s, "Formatting card...", <<>>), env))
      [] option = 4 ->
           [SerialPrint(s, "Enter new user key (12 hex characters, e.g., FFFFFFFFFFFF):", <<>>)
              EXCEPT !.currentState = "SERIAL_KEY_INPUT"]
      [] OTHER -> displaySerialMenu(s)

\* mutant: a line completed during the LCD text edit is written as custom text
processSerialCommandAnyText(s, env) ==
    CASE s.currentState = "MAIN_MENU" ->
           LET choice == toInt(s.serialInput)
           IN  IF choice >= 1 /\ choice <= 5
               THEN executeSerialMenuOption(s, env, choice - 1)
               ELSE displaySerialMenu(SerialPrint(s, "Invalid choice! Please enter 1-5.", <<>>))
      [] s.currentState \in {"SERIAL_TEXT_INPUT", "TEXT_INPUT"} ->
           LET t == writeCustomText(SerialPrint(s, "Writing custom text: ", s.serialInput),
                                    env, s.serialInput)
           IN  displaySerialMenu([t EXCEPT !.currentState = "MAIN_MENU"])
      [] s.currentState = "SERIAL_KEY_INPUT" ->
           LET t == IF Len(s.serialInput) = 12
                    THEN changeKeyFromSerial(
                             SerialPrint(s, "Changing user key to: ", s.serialInput),
                             s.serialInput)
                    ELSE SerialPrint(s, "Invalid key! Must be 12 hex characters.", <<>>)
           IN  displaySerialMenu([t EXCEPT !.currentState = "MAIN_MENU"])
      [] OTHER -> s

\* processSerialCommand: the completed line, by the state it was completed in
processSerialCommand(s, env) ==
    CASE s.currentState = "MAIN_MENU" ->
           LET choice == toInt(s.serialInput)
           IN  IF choice >= 1 /\ choice <= 5
               THEN executeSerialMenuOption(s, env, choice - 1)
               ELSE displaySerialMenu(SerialPrint(s, "Invalid choice! Please enter 1-5.", <<>>))
      [] s.currentState = "SERIAL_TEXT_INPUT" ->
           LET t == writeCustomText(SerialPrint(s, "Writing custom text: ", s.serialInput),
                                    env, s.serialInput)
           IN  displaySerialMenu([t EXCEPT !.currentState = "MAIN_MENU"])
      [] s.currentState = "SERIAL_KEY_INPUT" ->
           LET t == IF Len(s.serialInput) = 12
                    THEN changeKeyFromSerial(
                             SerialPrint(s, "Changing user key to: ", s.serialInput),
                             s.serialInput)
                    ELSE SerialPrint(s, "Invalid key! Must be 12 hex characters.", <<>>)
           IN  displaySerialMenu([t EXCEPT !.currentState = "MAIN_MENU"])
      [] OTHER -> s

\* the hex-digit test of handleSerialInput
IsHexChar(c) ==
    (c >= 48 /\ c <= 57) \/ (c >= 65 /\ c <= 70) \/ (c >= 97 /\ c <= 102)

\* serialInput += inChar; Serial.print(inChar)
Accept(s, inChar) == SerialPrint([s EXCEPT !.serialInput = Append(@, inChar)], "", <<inChar>>)

\* mutant: a terminator dispatches the pending line even when it is empty
SerialCharNoEmptyCheck(s, env, inChar) ==
    IF inChar = 10 \/ inChar = 13
    THEN [processSerialCommand(s, env) EXCEPT !.serialInput = <<>>]
    ELSE IF inChar = 8 \/ inChar = 127
    THEN IF Len(s.serialInput) > 0
         THEN SerialPrint([s EXCEPT !.serialInput = Substring(@, 0, Len(@) - 1)],
                          "\\b \\b", <<>>)
         ELSE s
    ELSE IF inChar >= 32 /\ inChar <= 126
    THEN IF s.currentState = "SERIAL_TEXT_INPUT" /\ Len(s.serialInput) < 16
         THEN Accept(s, inChar)
         ELSE IF s.currentState = "SERIAL_KEY_INPUT" /\ Len(s.serialInput) < 12
         THEN IF IsHexChar(inChar) THEN Accept(s, inChar) ELSE s
         ELSE IF s.currentState = "MAIN_MENU" /\ Len(s.serialInput) < 10
         THEN Accept(s, inChar)
         ELSE s
    ELSE s

\* the body of the while loop of handleSerialInput for one received character
SerialChar(s, env, inChar) ==
    IF inChar = 10 \/ inChar = 13
    THEN IF Len(s.serialInput) > 0
         THEN [processSerialCommand(s, env) EXCEPT !.serialInput = <<>>]
         ELSE s
    ELSE IF inChar = 8 \/ inChar = 127
    THEN IF Len(s.serialInput) > 0
         THEN SerialPrint([s EXCEPT !.serialInput = Substring(@, 0, Len(@) - 1)],
                          "\\b \\b", <<>>)
         ELSE s
    ELSE IF inChar >= 32 /\ inChar <= 126
    THEN IF s.currentState = "SERIAL_TEXT_INPUT" /\ Len(s.serialInput) < 16
         THEN Accept(s, inChar)
         ELSE IF s.currentState = "SERIAL_KEY_INPUT" /\ Len(s.serialInput) < 12
         THEN IF IsHexChar(inChar) THEN Accept(s, inChar) ELSE s
         ELSE IF s.currentState = "MAIN_MENU" /\ Len(s.serialInput) < 10
         THEN Accept(s, inChar)
         ELSE s
    ELSE s

\* handleSerialInput: while (Serial.available()) over the bytes received so far
RECURSIVE handleSerialInput(_, _, _)
handleSerialInput(s, env, bytes) ==
    IF bytes = <<>>
    THEN s
    ELSE handleSerialInput(SerialChar(s, env, Head(bytes)), env, Tail(bytes))

(****************************** the environment ****************************)

\* the most edit inputs (editor up/down/left presses, typed serial fragments) of one run
MaxEffort == 1

\* a user key an operator may install, as typed ("a3F0C5b7E9d1") and as key bytes
UserKeyHex == <<97, 51, 70, 48, 67, 53, 98, 55, 69, 57, 100, 49>>

UserKeyBytes == <<163, 240, 197, 183, 233, 209>>

\* a key the reader never holds
ForeignKey == <<1, 2, 3, 4, 5, 6>>

\* a card whose 16 sectors carry key k, except sector odd, which carries k2
Keyed(k, odd, k2) == [sec \in 0..15 |-> IF sec = odd THEN k2 ELSE k]

MakeCard(keyA, badWrite, readOk) ==
    [keyA |-> keyA, badWrite |-> badWrite, readOk |-> readOk,
     uid |-> <<4, 171, 9, 255>>,
     data |-> <<72, 105, 0, 200>> \o Fill(12, 32)]

\* no card answered: the handler made no card call
NoEnv == [polls |-> <<>>, card |-> MakeCard(Keyed(FactoryKey, 0, FactoryKey), {}, TRUE)]

MakeEnvs(foundPolls, lostPolls, cards) ==
    {[polls |-> p, card |-> c] : p \in foundPolls, c \in cards}
        \cup {[polls |-> p, card |-> NoEnv.card] : p \in lostPolls}

\* the buttons readButton reports, BTN_NONE aside
Buttons == {"RIGHT", "UP", "DOWN", "LEFT", "SELECT"}

\* the program state a handler works on; what the previous handler printed and the
\* card calls it made are dropped
St ==
    [currentState |-> currentState, menuIndex |-> menuIndex, inputText |-> inputText,
     cursorPos |-> cursorPos, charIndex |-> charIndex, keyInput |-> keyInput,
     keyPos |-> keyPos, keyCharIndex |-> keyCharIndex, serialInput |-> serialInput,
     keys |-> keys, lcd |-> <<>>, serialOut |-> <<>>, cardLog |-> <<>>]

Install(t) ==
    /\ currentState' = t.currentState
    /\ menuIndex' = t.menuIndex
    /\ inputText' = t.inputText
    /\ cursorPos' = t.cursorPos
    /\ charIndex' = t.charIndex
    /\ keyInput' = t.keyInput
    /\ keyPos' = t.keyPos
    /\ keyCharIndex' = t.keyCharIndex
    /\ serialInput' = t.serialInput
    /\ keys' = t.keys
    /\ lcd' = t.lcd
    /\ serialOut' = t.serialOut
    /\ cardLog' = t.cardLog

\* setup(): the three keys, the main menu on both front-ends
Init ==
    /\ currentState = "MAIN_MENU"
    /\ menuIndex = 0
    /\ inputText = <<>>
    /\ cursorPos = 0
    /\ charIndex = 0
    /\ keyInput = <<>>
    /\ keyPos = 0
    /\ keyCharIndex = 0
    /\ serialInput = <<>>
    /\ keys = <<FactoryKey, SecondKey, FactoryKey>>
    /\ lcd = <<Msg("<clear>", <<>>), Msg("NFC Menu:", <<>>), Msg(">", <<>>),
               Msg(menuItems[1], <<>>)>>
    /\ serialOut = <<Msg("=== NFC Tag Writer Menu ===", <<>>),
                     Msg("Enter your choice (1-5): ", <<>>)>>
    /\ cardLog = <<>>
    /\ lastEvent = [kind |-> "setup", button |-> "NONE", bytes |-> <<>>, env |-> NoEnv]
    /\ effort = 0

\* an editor press is an edit input unless the operator profile lets it pass free
ButtonCost(b, free) ==
    IF currentState \in {"TEXT_INPUT", "KEY_INPUT"} /\ b \notin free THEN 1 ELSE 0

\* received bytes that do not end a line stay pending: an edit input
BytesCost(bytes) == IF bytes # <<>> /\ bytes[Len(bytes)] \notin {10, 13} THEN 1 ELSE 0

\* the handler's result becomes the next state; env is recorded when a card call was made
Step(t, kind, b, bytes, env, cost, who) ==
    /\ effort + cost <= who.maxEffort
    /\ Install(t)
    /\ lastEvent' = [kind |-> kind, button |-> b, bytes |-> bytes,
                     env |-> IF t.cardLog = <<>> THEN NoEnv ELSE env]
    /\ effort' = effort + cost

\* whether the handler that produced t started a card operation (each one prompts first)
AsksForCard(t) ==
    \E i \in 1..Len(t.serialOut) : t.serialOut[i].text = "Place NFC card near reader..."

\* one pass of loop() with an accepted button press and no serial byte waiting;
\* a card environment is drawn only when the handler starts a card operation
ButtonEvent(b, who) ==
    LET t0 == handleButton(St, NoEnv, b)
        cost == ButtonCost(b, who.free)
    IN  /\ currentState = "MAIN_MENU" /\ b = "SELECT" => menuIndex \in who.choices
        /\ effort + cost <= who.maxEffort
        /\ IF AsksForCard(t0)
           THEN \E env \in who.envs :
                    Step(handleButton(St, env, b), "button", b, <<>>, env, cost, who)
           ELSE Step(t0, "button", b, <<>>, NoEnv, cost, who)

\* one pass of loop() with no button pressed and bytes waiting on Serial
SerialEvent(bytes, who) ==
    LET t0 == handleSerialInput(St, NoEnv, bytes)
        cost == BytesCost(bytes)
    IN  /\ effort + cost <= who.maxEffort
        /\ IF AsksForCard(t0)
           THEN \E env \in who.envs :
                    Step(handleSerialInput(St, env, bytes), "serial", "NONE", bytes, env,
                         cost, who)
           ELSE Step(t0, "serial", "NONE", bytes, NoEnv, cost, who)

\* loop() driven by an operator profile: the buttons pressed, those that are no edit
\* input, the menu entries selected on the LCD, the serial bytes sent, the cards shown
Loop(who) ==
    \/ \E b \in who.buttons : ButtonEvent(b, who)
    \/ \E bytes \in who.bursts : SerialEvent(bytes, who)

Profile(buttons, free, choices, bursts, envs, maxEffort) ==
    [buttons |-> buttons, free |-> free, choices |-> choices, bursts |-> bursts,
     envs |-> envs, maxEffort |-> maxEffort]

\* serial lines: a line of 12 non-hex characters, a 14-character text, a 17-character text
ZLine == <<90, 90, 90, 90, 90, 90, 90, 90, 90, 90, 90, 90>>

Text14 == <<72, 105, 32, 78, 70, 67, 32, 119, 111, 114, 108, 100, 33, 33>>

Text17 == <<49, 50, 51, 52, 53, 54, 55, 56, 57, 48, 97, 98, 99, 100, 101, 102, 103>>

FactoryCard == MakeCard(Keyed(FactoryKey, 0, FactoryKey), {}, TRUE)

ForeignCard == MakeCard(Keyed(ForeignKey, 0, ForeignKey), {}, TRUE)

(* the whole device: every button and menu entry, both channels, one card or    *)
(* none; every editor press but select is an edit input                         *)

Envs == MakeEnvs({<<"compat">>}, {<<"incompat", "none">>}, {FactoryCard})

Bursts == {<<49, 10>>, <<53, 13>>, UserKeyHex \o <<10>>, <<70, 102, 10>>}

Next == Loop(Profile(Buttons, {"SELECT"}, 0..4, Bursts, Envs, MaxEffort))

Spec == Init /\ [][Next]_vars

(* the card engine: menu navigation, the three card operations of the menu on   *)
(* both channels, a key change over serial, and cards of many keyings           *)

\* cards for the card engine: one key in every sector; one sector with a key the
\* reader lacks, or with the second key; one block that rejects writes
FormatCards ==
    {MakeCard(Keyed(k, 0, k), {}, r) : k \in {FactoryKey, SecondKey, UserKeyBytes}, r \in BOOLEAN}
        \cup {MakeCard(Keyed(FactoryKey, odd, ForeignKey), {}, TRUE) : odd \in 1..15}
        \cup {MakeCard(Keyed(k, 5, ForeignKey), {}, TRUE) : k \in {SecondKey, UserKeyBytes}}
        \cup {MakeCard(Keyed(FactoryKey, odd, SecondKey), {}, TRUE) : odd \in {1, 8}}
        \cup {MakeCard(Keyed(FactoryKey, 0, FactoryKey), {bad}, TRUE) :
                  bad \in {0, 4, 6, 7, 9, 22, 62}}

CardEnvs == MakeEnvs({<<"compat">>}, {<<"none">>}, FormatCards)

CardBursts == {<<49, 10>>, <<52, 10>>, <<53, 13>>, UserKeyHex \o <<10>>}

NextCard == Loop(Profile({"UP", "DOWN", "SELECT"}, {}, {0, 2, 3}, CardBursts, CardEnvs, 0))

SpecCard == Init /\ [][NextCard]_vars

(* the key editors: the LCD hex editor with every button (every press but       *)
(* select is an edit input) and whole key lines over serial                     *)

\* the most edit inputs of one run of the key editors
MaxKeyEdits == 1

KeyBursts == {<<53, 13>>, UserKeyHex \o <<10>>, ZLine \o <<10>>, <<70, 102, 10>>}

NextKey == Loop(Profile(Buttons, {"SELECT"}, {4}, KeyBursts, Envs, MaxKeyEdits))

SpecKey == Init /\ [][NextKey]_vars

(* the LCD text editor with every button (up and down are edit inputs)          *)

\* the most edit inputs of one run of the text editor
MaxTextEdits == 1

TextBursts == {<<10>>}

NextText ==
    Loop(Profile(Buttons, {"SELECT", "LEFT", "RIGHT"}, {1}, TextBursts, Envs, MaxTextEdits))

SpecText == Init /\ [][NextText]_vars

(* the candidate selector of the LCD text editor alone: up, down and select,    *)
(* any number of presses, the cursor left at position 0                         *)

NextChar ==
    Loop(Profile({"UP", "DOWN", "SELECT"}, {"UP", "DOWN", "SELECT"}, {1}, TextBursts, Envs, 0))

SpecChar == Init /\ [][NextChar]_vars

(* the custom-text writers: the LCD text editor moving right and setting        *)
(* characters (up is an edit input), and text lines over serial                  *)

\* a card whose block 4 rejects writes, a card whose block 4 cannot be read
WriteProtectedCard == MakeCard(Keyed(FactoryKey, 0, FactoryKey), {4}, TRUE)

UnreadableCard == MakeCard(Keyed(FactoryKey, 0, FactoryKey), {}, FALSE)

\* the most edit inputs of one run of the custom-text writers
MaxWriteEdits == 1

WriteEnvs == MakeEnvs({<<"compat">>}, {<<"none">>}, {FactoryCard, WriteProtectedCard})

WriteBursts == {<<50, 10>>, Text14 \o <<10>>, Text17 \o <<10>>}

NextWrite ==
    Loop(Profile({"UP", "RIGHT", "SELECT"}, {"RIGHT", "SELECT"}, {1}, WriteBursts, WriteEnvs,
                 MaxWriteEdits))

SpecWrite == Init /\ [][NextWrite]_vars

(* the operations and their outcomes: every menu entry on both channels, key    *)
(* and text lines, and cards that are absent, of another family, foreign-keyed, *)
(* write-protected or unreadable; the LCD editors are left with select alone    *)

OpEnvs ==
    MakeEnvs({<<"compat">>, <<"incompat", "compat">>}, {<<"none">>, <<"incompat", "none">>},
             {FactoryCard, ForeignCard, WriteProtectedCard, UnreadableCard})

OpBursts ==
    {<<49, 10>>, <<50, 10>>, <<51, 10>>, <<52, 10>>, <<53, 13>>, <<70, 102, 10>>,
     UserKeyHex \o <<10>>, Text14 \o <<10>>,
     <<50, 10>> \o Text14 \o <<10>>, <<52, 10>> \o Text14 \o <<10>>}

NextOps ==
    Loop(Profile({"UP", "DOWN", "SELECT"}, {"SELECT"}, 0..4, OpBursts, OpEnvs, 0))

SpecOps == Init /\ [][NextOps]_vars

(* serial line assembly next to the LCD: characters, backspaces and terminators *)
(* arriving one burst at a time (a burst that leaves the line pending is an edit *)
(* input), whole lines, and the LCD menu entered and left with down and select  *)

\* the most edit inputs of one run of the line assembly
MaxLineEdits == 2

LineBursts ==
    {<<49>>, <<50>>, Text17, <<8>>, <<127>>, <<10>>, <<13>>, <<13, 10>>,
     <<49, 13, 10>>, <<50, 10>>, <<53, 13>>}

NextLine ==
    Loop(Profile({"DOWN", "SELECT"}, {"SELECT"}, {1}, LineBursts, Envs, MaxLineEdits))

SpecLine == Init /\ [][NextLine]_vars

(***************************************************************************)
(*                              the claims                                 *)
(***************************************************************************)

\* whether the last handler printed text on Serial
Printed(text) == \E i \in 1..Len(serialOut) : serialOut[i].text = text

\* whether the last handler showed text on the display
Shown(text) == \E i \in 1..Len(lcd) : lcd[i].text = text

\* the card the last handler talked to
TheCard == lastEvent.env.card

\* the positions of the log with a call of kind op
Calls(op) == {i \in 1..Len(cardLog) : cardLog[i].op = op}

\* the slots whose key the card accepts for the sector of block b
Accepted(b) == {i \in 0..2 : TheCard.keyA[b \div 4] = keys[i + 1]}

(* C1: authenticate-with-fallback tries slots 0, 1, 2 in this order against the  *)
(* trailer block, each answered by the card for that slot's key; a later slot is *)
(* tried only after the one before failed, nothing is tried after a success, the *)
(* failure is reported only after all three failed, and a card that accepts only *)
(* slot 1 sees exactly 2 attempts.                                               *)
C1_AuthOrder ==
    /\ \A i \in Calls("auth") :
          LET e == cardLog[i]
              sameBefore == i > 1 /\ cardLog[i - 1].op = "auth" /\ cardLog[i - 1].block = e.block
              sameAfter  == i < Len(cardLog) /\ cardLog[i + 1].op = "auth"
                               /\ cardLog[i + 1].block = e.block
          IN  /\ e.slot \in 0..2
              /\ e.block % 4 = 3
              /\ e.ok = (e.slot \in Accepted(e.block))
              /\ IF e.slot = 0
                 THEN ~sameBefore
                 ELSE sameBefore /\ cardLog[i - 1].slot = e.slot - 1 /\ ~cardLog[i - 1].ok
              /\ IF ~e.ok /\ e.slot < 2
                 THEN sameAfter /\ cardLog[i + 1].slot = e.slot + 1
                 ELSE ~sameAfter
              /\ (Accepted(e.block) = {1}) =>
                    Cardinality({j \in Calls("auth") : cardLog[j].block = e.block}) = 2
    /\ Printed("Authentication failed with all keys!") =>
          \A k \in 0..2 : \E i \in Calls("auth") :
              cardLog[i].block = 7 /\ cardLog[i].slot = k /\ ~cardLog[i].ok
    /\ (\E i \in Calls("auth") : cardLog[i].slot = 2 /\ ~cardLog[i].ok) =>
          \/ Printed("Authentication failed with all keys!")
          \/ Printed("Card formatting failed!")

\* a card keyed to slot 1 only was authenticated for block 4: slot 0 failed, slot 1 passed
C1_Witness ==
    /\ Accepted(7) = {1}
    /\ \E i \in Calls("auth") :
          /\ cardLog[i].block = 7 /\ cardLog[i].slot = 0 /\ ~cardLog[i].ok
          /\ cardLog[i + 1].block = 7 /\ cardLog[i + 1].slot = 1 /\ cardLog[i + 1].ok
    /\ Printed("Authentication successful with key ")

\* whether the last handler ran formatCard past wait-for-card
FormatRan == Printed("Card formatted successfully!") \/ Printed("Card formatting failed!")

\* sector k cannot be wiped: no slot's key opens it, or one of its data blocks rejects writes
SectorFails(k) ==
    \/ Accepted(4 * k + 3) = {}
    \/ \E off \in 0..2 : (4 * k + off) \in TheCard.badWrite

\* the first sector of 1..15 that cannot be wiped, 16 when every one can
FirstFail ==
    IF \E k \in 1..15 : SectorFails(k)
    THEN CHOOSE k \in 1..15 : SectorFails(k) /\ \A j \in 1..(k - 1) : ~SectorFails(j)
    ELSE 16

\* whether the log holds an accepted write of 16 zero bytes to block b
Zeroed(b) ==
    \E i \in Calls("write") :
        cardLog[i].block = b /\ cardLog[i].ok /\ cardLog[i].data = Fill(16, 0)

\* whether the log holds an authentication or a write on a block of sector k
Touched(k) ==
    \E i \in Calls("auth") \cup Calls("write") : cardLog[i].block \div 4 = k

(* C2: format aborts at the first sector failure: with k the first sector of     *)
(* 1..15 whose authentication or block write fails, the 3 data blocks of every   *)
(* sector before k are zeroed, no sector after k is authenticated or written and *)
(* failure is reported; success is reported only when sectors 1..15 were wiped.  *)
C2_FormatAborts ==
    FormatRan =>
        /\ \A j \in 1..15 :
              /\ j < FirstFail => \A off \in 0..2 : Zeroed(4 * j + off)
              /\ j > FirstFail => ~Touched(j)
        /\ Printed("Card formatting failed!") <=> FirstFail <= 15
        /\ Printed("Card formatted successfully!") <=> FirstFail = 16
        /\ Shown("Format Failed!") <=> FirstFail <= 15
        /\ Shown("Format Success!") <=> FirstFail = 16

\* a format that failed at sector 5: no key opens it
C2_Witness ==
    /\ FormatRan
    /\ FirstFail = 5
    /\ Accepted(23) = {}
    /\ Zeroed(18)
    /\ Printed("Card formatting failed!")

(* C3: format never writes sector 0 nor a sector trailer: every write of a format *)
(* goes to a data block 4N, 4N+1 or 4N+2 of a sector N of 1..15, carries 16 zero  *)
(* bytes, and comes after an accepted authentication of trailer block 4N+3.       *)
C3_FormatFrame ==
    FormatRan =>
        \A i \in Calls("write") :
            LET e == cardLog[i]
            IN  /\ e.block \div 4 \in 1..15
                /\ e.block % 4 \in 0..2
                /\ e.data = Fill(16, 0)
                /\ \E j \in 1..(i - 1) :
                       /\ cardLog[j].op = "auth"
                       /\ cardLog[j].ok
                       /\ cardLog[j].block = 4 * (e.block \div 4) + 3

\* a format that wiped all of sectors 1..15: 45 writes
C3_Witness ==
    /\ Printed("Card formatted successfully!")
    /\ Cardinality(Calls("write")) = 45
    /\ Zeroed(4) /\ Zeroed(62)

\* whether out holds a printed item with this text
PrintedIn(out, text) == \E i \in 1..Len(out) : out[i].text = text

\* the step is a press of button b handled in state st
Pressed(st, b) ==
    currentState = st /\ lastEvent'.kind = "button" /\ lastEvent'.button = b

\* the step delivers, in state st, printable bytes closed by one line terminator
LineIn(st) ==
    /\ currentState = st
    /\ lastEvent'.kind = "serial"
    /\ LET bytes == lastEvent'.bytes
       IN  /\ Len(bytes) >= 1
           /\ bytes[Len(bytes)] \in {10, 13}
           /\ \A i \in 1..(Len(bytes) - 1) : bytes[i] \in 32..126

\* the key line that step assembles: the pending characters and the received hex digits
KeyLine ==
    LET bytes == lastEvent'.bytes
    IN  Substring(serialInput \o SelectSeq(SubSeq(bytes, 1, Len(bytes) - 1), IsHexChar), 0, 12)

\* the step finalizes the key on the LCD: select on the last key position
LcdFinalize == Pressed("KEY_INPUT", "SELECT") /\ keyPos = 11

\* the step finalizes a key line on Serial (empty lines are ignored)
SerialFinalize == LineIn("SERIAL_KEY_INPUT") /\ Len(KeyLine) > 0

(* C4: a key finalize whose string does not have exactly 12 characters - select  *)
(* on the last position of the LCD key editor, or a line in SERIAL_KEY_INPUT -   *)
(* leaves all 6 bytes of keys[2] (and the other keys) as they were and reports   *)
(* an invalid key.                                                               *)
C4_RejectKeepsKey ==
    [][/\ LcdFinalize /\ Len(keyInput') # 12 =>
              /\ keys' = keys
              /\ PrintedIn(lcd', "Invalid Key!")
              /\ PrintedIn(serialOut', "Invalid key length! Must be 12 hex characters.")
       /\ SerialFinalize /\ Len(KeyLine) # 12 =>
              /\ keys' = keys
              /\ PrintedIn(serialOut', "Invalid key! Must be 12 hex characters.")]_vars

\* the LCD editor finalized an 11-character string while keys[2] held a user key
C4_Witness ==
    /\ lastEvent.kind = "button"
    /\ Shown("Invalid Key!")
    /\ Len(keyInput) = 11
    /\ keys[3] = UserKeyBytes

(* C5: in SERIAL_KEY_INPUT the line ZZZZZZZZZZZZ (12 non-hex characters) and a   *)
(* line terminator is rejected with the invalid-key report, leaves keys[2] as it *)
(* was and returns to MAIN_MENU.                                                 *)
C5_NonHexLineRejected ==
    [][LineIn("SERIAL_KEY_INPUT") /\ lastEvent'.bytes = ZLine \o <<10>> =>
           /\ PrintedIn(serialOut', "Invalid key! Must be 12 hex characters.")
           /\ keys'[3] = keys[3]
           /\ currentState' = "MAIN_MENU"]_vars

\* the digits of a key as the two editors produce and accept them
UpperDigits == <<48, 49, 50, 51, 52, 53, 54, 55, 56, 57, 65, 66, 67, 68, 69, 70>>

LowerDigits == <<48, 49, 50, 51, 52, 53, 54, 55, 56, 57, 97, 98, 99, 100, 101, 102>>

AllHex(str) ==
    \A i \in 1..Len(str) : \E v \in 1..16 : str[i] \in {UpperDigits[v], LowerDigits[v]}

(* C6: keys[0] is FF FF FF FF FF FF and keys[1] is D3 F7 D3 F7 D3 F7 in every    *)
(* reachable state; a step that changes the keys changes keys[2] only and is a   *)
(* key finalize with exactly 12 hex characters, on the LCD or on Serial.         *)
C6_KeysStable ==
    /\ [](keys[1] = <<255, 255, 255, 255, 255, 255>> /\ keys[2] = <<211, 247, 211, 247, 211, 247>>)
    /\ [][keys' # keys =>
              /\ keys'[1] = keys[1] /\ keys'[2] = keys[2]
              /\ \/ LcdFinalize /\ Len(keyInput') = 12 /\ AllHex(keyInput')
                 \/ SerialFinalize /\ Len(KeyLine) = 12 /\ AllHex(KeyLine)]_vars

\* the LCD editor finalized 12 digits and keys[2] left its default
C6_Witness ==
    /\ lastEvent.kind = "button"
    /\ Shown("Key Updated!")
    /\ keys[3] # FactoryKey
    /\ keys[1] = FactoryKey /\ keys[2] = SecondKey

\* the value of hex digit c, upper or lower case
Nibble(c) == (CHOOSE v \in 1..16 : c \in {UpperDigits[v], LowerDigits[v]}) - 1

(* C7: a successful key change installs in keys[2] the 6 bytes of the 12-digit   *)
(* hex string it was given, byte i = 16 * digit 2i + digit 2i+1, upper and lower *)
(* case alike; the string is the LCD editor's keyInput or the serial line.       *)
C7_KeyBytes ==
    \A m \in 1..Len(serialOut) :
        serialOut[m].text = "User authentication key updated to: " =>
            LET str == serialOut[m].arg
            IN  /\ Len(str) = 12
                /\ AllHex(str)
                /\ keys[3] = [i \in 1..6 |-> 16 * Nibble(str[2 * i - 1]) + Nibble(str[2 * i])]
                /\ lastEvent.kind = "button" => str = keyInput
                /\ lastEvent.kind = "serial" =>
                       str = SubSeq(lastEvent.bytes, 1, Len(lastEvent.bytes) - 1)

\* the serial line a3F0C5b7E9d1 was installed as A3 F0 C5 B7 E9 D1
C7_Witness ==
    /\ lastEvent.kind = "serial"
    /\ lastEvent.bytes = UserKeyHex \o <<10>>
    /\ Printed("User authentication key updated to: ")
    /\ keys[3] = <<163, 240, 197, 183, 233, 209>>

(* C8 as the specification states it: the candidate index stays within [0,95),   *)
(* up from 94 gives 0 and down from 0 gives 94.                                  *)
C8_Wraps95 ==
    /\ [](charIndex \in 0..94)
    /\ [][/\ Pressed("TEXT_INPUT", "UP") =>
                 charIndex' = IF charIndex = 94 THEN 0 ELSE charIndex + 1
          /\ Pressed("TEXT_INPUT", "DOWN") =>
                 charIndex' = IF charIndex = 0 THEN 94 ELSE charIndex - 1]_vars

(* C8: the candidate index stays within [0,89) and wraps at the boundary of the  *)
(* 89-symbol alphabet: up adds one and from 88 gives 0, down takes one off and   *)
(* from 0 gives 88.                                                              *)
C8_Wraps89 ==
    /\ [](charIndex \in 0..88)
    /\ [][/\ Pressed("TEXT_INPUT", "UP") =>
                 charIndex' = IF charIndex = 88 THEN 0 ELSE charIndex + 1
          /\ Pressed("TEXT_INPUT", "DOWN") =>
                 charIndex' = IF charIndex = 0 THEN 88 ELSE charIndex - 1]_vars

\* up was pressed on the last symbol: the candidate is the first symbol again
C8_Witness ==
    /\ currentState = "TEXT_INPUT"
    /\ lastEvent.button = "UP"
    /\ charIndex = 0
    /\ inputText = <<32>>

(* C9: the cursor position stays within [0,16]; right after an accepted left or  *)
(* right move the candidate is the buffer's character at the new position, or    *)
(* space (index 0) when the position is beyond the buffer.                       *)
C9_CursorAndCandidate ==
    /\ [](cursorPos \in 0..16)
    /\ [][(Pressed("TEXT_INPUT", "LEFT") \/ Pressed("TEXT_INPUT", "RIGHT"))
              /\ cursorPos' # cursorPos =>
              IF cursorPos' < Len(inputText')
              THEN charSet[charIndex' + 1] = inputText'[cursorPos' + 1]
              ELSE charIndex' = 0]_vars

\* the cursor moved left onto a character the operator had set
C9_Witness ==
    /\ currentState = "TEXT_INPUT"
    /\ lastEvent.button = "LEFT"
    /\ cursorPos < Len(inputText)
    /\ inputText[cursorPos + 1] # 32
    /\ charSet[charIndex + 1] = inputText[cursorPos + 1]

(* C10: the text buffer of the LCD editor never holds more than 16 characters.   *)
C10_BufferAtMost16 == Len(inputText) <= 16

\* wait-for-card finds a compatible card in env
Found(env) == env.polls # <<>> /\ env.polls[Len(env.polls)] = "compat"

\* a card is found and opens sector 1 to one of the reader's keys
Opens(env) == Found(env) /\ \E i \in 1..3 : env.card.keyA[1] = keys[i]

\* and it lets block 4 be written
Writable(env) == Opens(env) /\ 4 \notin env.card.badWrite

\* the write calls of a card log
WritesOf(log) == {i \in 1..Len(log) : log[i].op = "write"}

\* the step selects Write Default: on the LCD menu, or as the serial choice 1
WriteDefaultStep ==
    \/ Pressed("MAIN_MENU", "SELECT") /\ menuIndex = 0
    \/ LineIn("MAIN_MENU") /\ serialInput = <<>> /\ lastEvent'.bytes \in {<<49, 10>>, <<49, 13>>}

(* C11: Write Default, from the LCD menu or as serial choice 1, with a compatible *)
(* card that opens to the factory key and accepts the write: block 4 receives    *)
(* "Hello NFC!" and 6 spaces, trailer block 7 is authenticated, no other block   *)
(* is written, and success is shown on the LCD and printed on Serial.            *)
C11_WriteDefault ==
    [][WriteDefaultStep /\ Found(lastEvent'.env)
           /\ lastEvent'.env.card.keyA[1] = <<255, 255, 255, 255, 255, 255>>
           /\ 4 \notin lastEvent'.env.card.badWrite =>
           /\ \E i \in WritesOf(cardLog') :
                  /\ cardLog'[i].ok
                  /\ cardLog'[i].data =
                         <<72, 101, 108, 108, 111, 32, 78, 70, 67, 33, 32, 32, 32, 32, 32, 32>>
           /\ \A i \in WritesOf(cardLog') : cardLog'[i].block = 4
           /\ Cardinality(WritesOf(cardLog')) = 1
           /\ \E i \in 1..Len(cardLog') :
                  cardLog'[i].op = "auth" /\ cardLog'[i].block = 7 /\ cardLog'[i].ok
           /\ \A i \in 1..Len(cardLog') : cardLog'[i].op = "auth" => cardLog'[i].block = 7
           /\ PrintedIn(lcd', "Write Success!")
           /\ PrintedIn(serialOut', "Successfully wrote 'Hello NFC!' to card")]_vars

\* Write Default was selected on the LCD and block 4 of a factory-keyed card written
C11_Witness ==
    /\ lastEvent.kind = "button"
    /\ menuIndex = 0
    /\ TheCard.keyA[1] = FactoryKey
    /\ Shown("Write Success!") /\ Shown("Hello NFC!")
    /\ \E i \in Calls("write") : cardLog[i].block = 4 /\ cardLog[i].ok

\* the step runs write-custom: select in the LCD text editor, or a SERIAL_TEXT_INPUT line
CustomStep ==
    \/ Pressed("TEXT_INPUT", "SELECT")
    \/ LineIn("SERIAL_TEXT_INPUT") /\ Len(serialInput) + Len(lastEvent'.bytes) > 1

\* the text that step hands to write-custom: the edit buffer without its trailing
\* spaces, or the line (its first 16 characters are all the line buffer takes)
CustomText ==
    IF lastEvent'.kind = "button"
    THEN TrimTrailing(inputText)
    ELSE Substring(serialInput \o SubSeq(lastEvent'.bytes, 1, Len(lastEvent'.bytes) - 1), 0, 16)

(* C12: write-custom(text) writes exactly 16 bytes to block 4: byte i is text[i] *)
(* for i < min(len(text), 16) and a space for every other i < 16; characters at  *)
(* index 16 or beyond are dropped; no other block is written.                    *)
C12_CustomBlock ==
    [][CustomStep =>
           /\ \A i \in WritesOf(cardLog') :
                  /\ cardLog'[i].block = 4
                  /\ Len(cardLog'[i].data) = 16
                  /\ \A k \in 1..16 :
                         cardLog'[i].data[k] =
                             IF k <= Len(CustomText) THEN CustomText[k] ELSE 32
           /\ Cardinality(WritesOf(cardLog')) = IF Opens(lastEvent'.env) THEN 1 ELSE 0
           /\ Writable(lastEvent'.env) => \E i \in WritesOf(cardLog') : cardLog'[i].ok]_vars

\* the LCD editor wrote a 17-character text: its last character is not on the card
C12_Witness ==
    /\ lastEvent.kind = "button"
    /\ lastEvent.button = "SELECT"
    /\ Len(inputText) = 17
    /\ inputText[17] # 32
    /\ \E i \in Calls("write") : cardLog[i].ok /\ cardLog[i].data = Fill(16, 32)
    /\ Shown("Write Success!")

\* the step delivers, from MAIN_MENU with nothing pending, the line of the one
\* character c and then a 14-character text line; or it delivers the text line
\* right after the line of c was taken as a menu choice, which printed prompt
MenuLineThenText(c, prompt, stateAfter) ==
    /\ lastEvent'.kind = "serial"
    /\ serialInput = <<>>
    /\ \/ /\ currentState = "MAIN_MENU"
          /\ Len(lastEvent'.bytes) = 17
          /\ SubSeq(lastEvent'.bytes, 1, 2) = <<c, 10>>
          /\ lastEvent'.bytes[17] = 10
          /\ \A i \in 3..16 : lastEvent'.bytes[i] \in 32..126
       \/ /\ lastEvent.kind = "serial"
          /\ lastEvent.bytes = <<c, 10>>
          /\ Printed(prompt)
          /\ currentState = stateAfter
          /\ Len(lastEvent'.bytes) = 15
          /\ lastEvent'.bytes[15] = 10
          /\ \A i \in 1..14 : lastEvent'.bytes[i] \in 32..126

\* the 14-character text of that step
TextLine == SubSeq(lastEvent'.bytes, Len(lastEvent'.bytes) - 14, Len(lastEvent'.bytes) - 1)

\* a custom-text write of that text: block 4 receives it padded with spaces to 16
\* bytes, and the success message echoes it
TextWritten ==
    /\ \E i \in WritesOf(cardLog') :
           /\ cardLog'[i].block = 4
           /\ cardLog'[i].ok
           /\ cardLog'[i].data = TextLine \o <<32, 32>>
    /\ \E m \in 1..Len(serialOut') :
           /\ serialOut'[m].text = "Successfully wrote ' ' to card"
           /\ serialOut'[m].arg = TextLine

(* C13 as the specification states it: from MAIN_MENU the serial line "4" and    *)
(* then a 14-character text line write that text to block 4 of a compatible,     *)
(* authenticating card and report success with the text echoed.                  *)
C13_Line4ThenText ==
    [][MenuLineThenText(52, "Formatting card...", "MAIN_MENU") /\ Writable(lastEvent'.env) =>
           TextWritten]_vars

(* C13: from MAIN_MENU the serial line "2" (Write Custom Text) and then a        *)
(* 14-character text line write that text, padded with spaces to 16 bytes, to    *)
(* block 4 of a compatible, authenticating card and report success with the text *)
(* echoed.                                                                       *)
C13_Line2ThenText ==
    [][MenuLineThenText(50, "Enter custom text (max 16 characters):", "SERIAL_TEXT_INPUT")
           /\ Writable(lastEvent'.env) =>
           TextWritten]_vars

\* the 14-character line was written after the line "2" and the state is MAIN_MENU again
C13_Witness ==
    /\ lastEvent.kind = "serial"
    /\ lastEvent.bytes = Text14 \o <<10>>
    /\ currentState = "MAIN_MENU"
    /\ \E i \in Calls("write") : cardLog[i].ok /\ cardLog[i].data = Text14 \o <<32, 32>>
    /\ \E m \in 1..Len(serialOut) :
           serialOut[m].text = "Successfully wrote ' ' to card" /\ serialOut[m].arg = Text14

(* C14: the initial state is MAIN_MENU and in every reachable state currentState *)
(* is one of MAIN_MENU, TEXT_INPUT, KEY_INPUT, PROCESSING, SERIAL_TEXT_INPUT,    *)
(* SERIAL_KEY_INPUT; the legacy values WRITE_DEFAULT, WRITE_CUSTOM, READ_CARD,   *)
(* FORMAT_CARD, CHANGE_KEY are never assigned.                                   *)
C14_StateType ==
    /\ currentState = "MAIN_MENU"
    /\ [](/\ currentState \in {"MAIN_MENU", "TEXT_INPUT", "KEY_INPUT", "PROCESSING",
                               "SERIAL_TEXT_INPUT", "SERIAL_KEY_INPUT"}
          /\ currentState \notin {"WRITE_DEFAULT", "WRITE_CUSTOM", "READ_CARD", "FORMAT_CARD",
                                  "CHANGE_KEY"})

\* Change Auth Key was selected on the LCD: through PROCESSING into KEY_INPUT
C14_Witness ==
    /\ currentState = "KEY_INPUT"
    /\ lastEvent.button = "SELECT"
    /\ menuIndex = 4
    /\ Shown("Processing...")

\* the last handler ran a card operation or a key change to its end
OperationRan ==
    \/ Printed("Place NFC card near reader...")
    \/ Printed("Invalid key! Must be 12 hex characters.")
    \/ Printed("Invalid key length! Must be 12 hex characters.")
    \/ Printed("User authentication key updated to: ")

(* C15: every card or key operation, started from either channel, ends within    *)
(* its handler with currentState = MAIN_MENU whatever the outcome: wait-for-card *)
(* polls no more often than its timeout allows, and no outcome leaves PROCESSING *)
(* or an editor state behind.                                                    *)
C15_ReturnsToMenu ==
    OperationRan =>
        /\ currentState = "MAIN_MENU"
        /\ Cardinality(Calls("detect")) <= Len(lastEvent.env.polls)
        /\ Found(lastEvent.env) <=> Printed("Compatible NFC card detected!")
        /\ ~Found(lastEvent.env) /\ Printed("Place NFC card near reader...") =>
               Printed("Operation failed - no card detected or timeout!")

\* an operation started on the LCD failed to authenticate and the menu is back
C15_Witness ==
    /\ lastEvent.kind = "button"
    /\ Shown("Processing...")
    /\ Printed("Authentication failed with all keys!")
    /\ currentState = "MAIN_MENU"

(* C16: a card operation on whose path wait-for-card selected a card ends with   *)
(* halt and stop-crypto as its last two card calls, whatever the outcome; a card *)
(* of another family seen by wait-for-card is halted before the next poll.       *)
C16_AlwaysHalts ==
    /\ Found(lastEvent.env) /\ cardLog # <<>> =>
           /\ Len(cardLog) >= 3
           /\ cardLog[Len(cardLog) - 1].op = "halt"
           /\ cardLog[Len(cardLog)].op = "stopCrypto"
    /\ \A i \in Calls("detect") :
           LET k == Cardinality({j \in Calls("detect") : j <= i})
           IN  lastEvent.env.polls[k] = "incompat" =>
                   /\ i + 2 <= Len(cardLog)
                   /\ cardLog[i + 1].op = "halt"
                   /\ cardLog[i + 2].op = "stopCrypto"

\* a format that was aborted on a card found after one of another family
C16_Witness ==
    /\ lastEvent.env.polls = <<"incompat", "compat">>
    /\ Printed("Card formatting failed!")
    /\ cardLog[2].op = "halt"
    /\ cardLog[Len(cardLog) - 1].op = "halt"
    /\ Len(cardLog) > 6

\* the failure point of a card operation that made the card calls log on env
FailurePoint(log, env) ==
    IF ~Found(env) THEN "no card"
    ELSE IF \E i \in 1..Len(log) : log[i].op = "auth" /\ log[i].slot = 2 /\ ~log[i].ok
    THEN "authentication"
    ELSE IF \E i \in 1..Len(log) : log[i].op \in {"read", "write"} /\ ~log[i].ok
    THEN "transfer"
    ELSE "none"

\* the failure status messages of the card operations, LCD and Serial
FailureMessages ==
    {"Failed!", "Auth Failed!", "Write Failed!", "Read Failed!", "Format Failed!",
     "Operation failed - no card detected or timeout!", "Authentication failed with all keys!",
     "Write operation failed!", "Read operation failed!", "Card formatting failed!"}

\* the failure status a handler reported on the display and on Serial
FailureStatus(display, out) ==
    {m \in FailureMessages : PrintedIn(display, m) \/ PrintedIn(out, m)}

\* the handler of the step, run from the same state on another card environment
Rerun(env) ==
    IF lastEvent'.kind = "button"
    THEN handleButton(St, env, lastEvent'.button)
    ELSE handleSerialInput(St, env, lastEvent'.bytes)

(* C17: within each card operation the status reported for no card, for an       *)
(* authentication failure and for a transfer failure are pairwise different: two *)
(* runs of the same operation from the same state that fail at different points  *)
(* report different failure statuses.                                            *)
C17_DistinctFailures ==
    [][cardLog' # <<>> =>
           \A env \in OpEnvs :
               LET other == Rerun(env)
                   here  == FailurePoint(cardLog', lastEvent'.env)
                   there == FailurePoint(other.cardLog, env)
               IN  here # "none" /\ there # "none" /\ here # there =>
                       FailureStatus(lcd', serialOut') # FailureStatus(other.lcd, other.serialOut)]_vars

(* C18: every error outcome - no card, authentication failure, transfer failure, *)
(* invalid key - is reported on the LCD and on Serial, whichever channel started *)
(* the operation; an invalid key entered over serial shows on the LCD too.       *)
C18_ErrorsOnBothChannels ==
    /\ Printed("Operation failed - no card detected or timeout!") <=> Shown("Failed!")
    /\ Printed("Authentication failed with all keys!") <=> Shown("Auth Failed!")
    /\ Printed("Write operation failed!") <=> Shown("Write Failed!")
    /\ Printed("Read operation failed!") <=> Shown("Read Failed!")
    /\ Printed("Card formatting failed!") <=> Shown("Format Failed!")
    /\ (\/ Printed("Invalid key! Must be 12 hex characters.")
        \/ Printed("Invalid key length! Must be 12 hex characters.")) <=> Shown("Invalid Key!")

(* C19: in KEY_INPUT, select with the cursor at p and candidate digit d puts the *)
(* hex character of d at index p of keyInput and leaves every other character as *)
(* it was; keyPos stays within 0..11 and keyInput never exceeds 12 characters.   *)
C19_SelectCommitsAtCursor ==
    /\ [](keyPos \in 0..11 /\ Len(keyInput) <= 12)
    /\ [][Pressed("KEY_INPUT", "SELECT") =>
              /\ Len(keyInput') > keyPos
              /\ keyInput'[keyPos + 1] = UpperDigits[keyCharIndex + 1]
              /\ \A i \in 1..Len(keyInput) : i # keyPos + 1 => keyInput'[i] = keyInput[i]]_vars

(* C20: every finalize of the LCD key editor (select at cursor position 11) has  *)
(* exactly 12 committed hex characters, installs them in keys[2] and never ends  *)
(* in the invalid-key rejection.                                                 *)
C20_LcdFinalizeInstalls ==
    [][LcdFinalize =>
           /\ Len(keyInput') = 12
           /\ PrintedIn(serialOut', "User authentication key updated to: ")
           /\ PrintedIn(lcd', "Key Updated!")
           /\ ~PrintedIn(lcd', "Invalid Key!")
           /\ keys'[3] = [i \in 1..6 |->
                             16 * Nibble(keyInput'[2 * i - 1]) + Nibble(keyInput'[2 * i])]]_vars

(* the two channels on the shared state: a serial line and the LCD text edit    *)

\* a terminator that completes a non-empty pending line while the LCD text editor is open
LineClosesInTextInput ==
    /\ currentState = "TEXT_INPUT"
    /\ serialInput # <<>>
    /\ lastEvent'.kind = "serial"
    /\ lastEvent'.bytes \in {<<10>>, <<13>>}

\* C21 as stated: a serial line completed while the state is TextInput (the edit
\* having been started with select on Write Custom) invokes write-custom and
\* returns the state to MainMenu
C21_LineFinalizesLcdEdit ==
    [][LineClosesInTextInput =>
         /\ PrintedIn(serialOut', "Writing custom text: ")
         /\ PrintedIn(serialOut', "Place NFC card near reader...")
         /\ currentState' = "MAIN_MENU"]_vars

\* C21 as the code has it: a serial line completed while the state is TextInput is
\* dropped: no operation runs, nothing is printed on either channel, the state
\* stays TextInput with the edit as it was, and the pending line is emptied
C21_LineDroppedInLcdEdit ==
    [][LineClosesInTextInput =>
         /\ currentState' = "TEXT_INPUT"
         /\ serialInput' = <<>>
         /\ cardLog' = <<>> /\ serialOut' = <<>> /\ lcd' = <<>>
         /\ UNCHANGED <<menuIndex, inputText, cursorPos, charIndex, keyInput, keyPos,
                        keyCharIndex, keys>>]_vars

\* the LCD text edit just started with select while a serial line is pending
C21_Witness ==
    /\ currentState = "TEXT_INPUT"
    /\ serialInput # <<>>
    /\ lastEvent.kind = "button" /\ lastEvent.button = "SELECT"
    /\ Shown("Text:") /\ inputText = <<>> /\ cursorPos = 0

(* serial line assembly                                                         *)

\* the bytes of the serial step being taken
Received == lastEvent'.bytes

\* the bytes are printable characters followed by one or two terminators
Terminated(bytes) ==
    \E k \in 1..2 :
        /\ Len(bytes) >= k
        /\ \A i \in 1..Len(bytes) :
               IF i > Len(bytes) - k THEN bytes[i] \in {10, 13} ELSE bytes[i] \in 32..126

\* the printable characters before the terminators
Body(bytes) == SelectSeq(bytes, LAMBDA c : c \in 32..126)

\* the line the first terminator of the bytes finds pending is not empty
LinePending ==
    \/ serialInput # <<>>
    \/ currentState \in {"MAIN_MENU", "SERIAL_TEXT_INPUT"} /\ Body(Received) # <<>>
    \/ currentState = "SERIAL_KEY_INPUT" /\ \E i \in 1..Len(Body(Received)) : IsHexChar(Body(Received)[i])

\* the lines dispatched in one serial step, counted by what every dispatch ends with:
\* the menu printed again, or the prompt of the state entered
Dispatches(out) ==
    Cardinality({i \in 1..Len(out) :
                   out[i].text \in {"Enter your choice (1-5): ",
                                    "Enter custom text (max 16 characters):",
                                    "Enter new user key (12 hex characters, e.g., FFFFFFFFFFFF):"}})

\* nothing of the program's state changes and nothing is done on any device
Untouched ==
    /\ UNCHANGED <<currentState, menuIndex, inputText, cursorPos, charIndex, keyInput, keyPos,
                    keyCharIndex, serialInput, keys>>
    /\ cardLog' = <<>> /\ serialOut' = <<>> /\ lcd' = <<>>

\* C22: a terminator received while the pending line is empty dispatches nothing and
\* changes no state, so a CR-LF pair dispatches its line once; a terminator received
\* with a non-empty pending line dispatches that line exactly once (to the branch of
\* the state it was completed in, none in the LCD editors) and the line buffer is
\* empty afterwards; backspace and DEL remove exactly the last pending character;
\* and the pending line never exceeds 16 characters
C22_LineAssembly ==
    /\ [](Len(serialInput) <= 16)
    /\ [][lastEvent'.kind = "serial" =>
            /\ Terminated(Received) /\ ~LinePending => Untouched
            /\ Terminated(Received) /\ LinePending =>
                  /\ serialInput' = <<>>
                  /\ Dispatches(serialOut') =
                        IF currentState \in {"MAIN_MENU", "SERIAL_TEXT_INPUT", "SERIAL_KEY_INPUT"}
                        THEN 1 ELSE 0
            /\ Received \in {<<8>>, <<127>>} =>
                  /\ serialInput' = SubSeq(serialInput, 1, Len(serialInput) - 1)
                  /\ UNCHANGED <<currentState, menuIndex, inputText, cursorPos, charIndex,
                                 keyInput, keyPos, keyCharIndex, keys>>
                  /\ cardLog' = <<>> /\ lcd' = <<>>]_vars

\* a pending line closed by a CR-LF pair has been dispatched once, as the menu choice 1
C22_Witness ==
    /\ lastEvent.kind = "serial" /\ lastEvent.bytes = <<13, 10>>
    /\ serialInput = <<>>
    /\ Printed("Writing default text to card...")
    /\ Dispatches(serialOut) = 1

(* the pending serial line across changes of the interaction state             *)

\* C23: whenever the interaction state changes (a select press that leaves
\* SerialTextInput or SerialKeyInput for MainMenu included) the pending serial line
\* is empty, so characters typed in one state are never dispatched under another
C23_StateChangeClearsLine ==
    [][currentState' # currentState => serialInput' = <<>>]_vars

====
